---- MODULE Spec2Model ----
(***************************************************************************)
(* Model of readthedocs/core/unresolver.py: the Unresolver, which turns a  *)
(* host and a path into (parent project, serving project, version, file). *)
(*                                                                         *)
(* Strings are sequences of one-character strings, so that split, rsplit,  *)
(* lower, substring tests and the two path patterns are computed on the    *)
(* characters as the Python code computes them.                            *)
(***************************************************************************)
EXTENDS Naturals, Sequences, FiniteSets, TLC

VARIABLES db, call, result

vars == <<db, call, result>>

(***************************************************************************)
(* Python values                                                           *)
(***************************************************************************)

\* Python's None where a string is expected: a one-element sequence that is
\* no string of the model's alphabet.
None == <<"<None>">>

\* Python's None where a Project, a Domain or a Version is expected.
NoProject == "None"

NoDomain == [domain |-> None, project |-> NoProject]

NoVersion == [project |-> NoProject, slug |-> None, type |-> "None"]

\* Truthiness of an optional string: None and "" are both false.
Truthy(s) == s # None /\ s # <<>>

(***************************************************************************)
(* str methods                                                             *)
(***************************************************************************)

StartsWith(s, p) == Len(s) >= Len(p) /\ SubSeq(s, 1, Len(p)) = p

EndsWith(s, p) == Len(s) >= Len(p) /\ SubSeq(s, Len(s) - Len(p) + 1, Len(s)) = p

RECURSIVE FindFrom(_, _, _)
\* The first position from i on at which p occurs in s, 0 when there is none.
FindFrom(s, p, i) ==
    IF i + Len(p) - 1 > Len(s) THEN 0
    ELSE IF SubSeq(s, i, i + Len(p) - 1) = p THEN i
    ELSE FindFrom(s, p, i + 1)

RECURSIVE RFindFrom(_, _, _)
\* The last position up to i at which p occurs in s, 0 when there is none.
RFindFrom(s, p, i) ==
    IF i < 1 THEN 0
    ELSE IF SubSeq(s, i, i + Len(p) - 1) = p THEN i
    ELSE RFindFrom(s, p, i - 1)

\* s.find(p) and s.rfind(p), counted from 1
Find(s, p) == FindFrom(s, p, 1)

RFind(s, p) == RFindFrom(s, p, Len(s) - Len(p) + 1)

\* p in s
Contains(s, p) == Find(s, p) # 0

\* s cut at the occurrence of p at position i; s alone when i is 0.
SplitAt(s, p, i) ==
    IF i # 0
    THEN <<SubSeq(s, 1, i - 1), SubSeq(s, i + Len(p), Len(s))>>
    ELSE <<s>>

\* s.split(p, maxsplit=1): one or two parts, cut at the first occurrence.
Split1(s, p) == SplitAt(s, p, Find(s, p))

\* A variant of RSplit1 that cuts at the first occurrence, as split does.
RSplit1AtFirst(s, p) == SplitAt(s, p, FindFrom(s, p, 1))

\* s.rsplit(p, maxsplit=1): one or two parts, cut at the last occurrence.
RSplit1(s, p) == SplitAt(s, p, RFind(s, p))

UpperCase == <<"P", "I", "R", "T", "D", "O">>

LowerCase == <<"p", "i", "r", "t", "d", "o">>

LowerChar(c) ==
    IF \E i \in 1..Len(UpperCase) : UpperCase[i] = c
    THEN LowerCase[CHOOSE i \in 1..Len(UpperCase) : UpperCase[i] = c]
    ELSE c

UpperChar(c) ==
    IF \E i \in 1..Len(LowerCase) : LowerCase[i] = c
    THEN UpperCase[CHOOSE i \in 1..Len(LowerCase) : LowerCase[i] = c]
    ELSE c

\* s.lower()
Lower(s) == SubSeq([i \in 1..Len(s) |-> LowerChar(s[i])], 1, Len(s))

\* s.upper()
Upper(s) == SubSeq([i \in 1..Len(s) |-> UpperChar(s[i])], 1, Len(s))

Alnum ==
         {"a", "b", "c", "d", "e", "f", "g", "h", "i", "j", "k", "l", "m",
           "n", "o", "p", "q", "r", "s", "t", "u", "v", "w", "x", "y", "z",
           "A", "B", "C", "D", "E", "F", "G", "H", "I", "J", "K", "L", "M",
           "N", "O", "P", "Q", "R", "S", "T", "U", "V", "W", "X", "Y", "Z",
           "0", "1", "2", "3", "4", "5", "6", "7", "8", "9"}

\* c.isalnum(), for an ASCII character
IsAlnum(c) == c \in Alnum

(***************************************************************************)
(* Words of the model                                                      *)
(***************************************************************************)

W_slash == <<"/">>
W_dot == <<".">>
W_dashes == <<"-", "-">>
W_en == <<"e", "n">>
W_es == <<"e", "s">>
W_latest == <<"l", "a", "t", "e", "s", "t">>
W_stable == <<"s", "t", "a", "b", "l", "e">>
W_42 == <<"4", "2">>
W_f == <<"f">>
W_projects == <<"p", "r", "o", "j", "e", "c", "t", "s">>
W_pip == <<"p", "i", "p">>
W_pipes == <<"p", "i", "p", "-", "e", "s">>
W_subes == <<"s", "u", "b", "-", "e", "s">>
W_sub == <<"s", "u", "b">>
W_sub2 == <<"s", "u", "b", "2">>
W_nop == <<"n", "o", "p">>
W_com == <<"c", "o", "m">>
W_index_html == <<"i", "n", "d", "e", "x", ".", "h", "t", "m", "l">>

(***************************************************************************)
(* Settings and the data store (the records the Django queries read)       *)
(***************************************************************************)

\* settings.PUBLIC_DOMAIN
PUBLIC_DOMAIN == <<"r", "t", "d", ".", "i", "o">>

\* settings.RTD_EXTERNAL_VERSION_DOMAIN
RTD_EXTERNAL_VERSION_DOMAIN == <<"r", "t", "d", ".", "b", "l", "d">>

INTERNAL == "internal"

EXTERNAL == "external"

Projects == {"pip", "pip-es", "sub", "sub-es", "sub2"}

\* Project.slug
Slug(p) ==
    CASE p = "pip" -> W_pip
      [] p = "pip-es" -> W_pipes
      [] p = "sub" -> W_sub
      [] p = "sub-es" -> W_subes
      [] p = "sub2" -> W_sub2

\* Project.language
Language(p) == IF p \in {"pip-es", "sub-es"} THEN W_es ELSE W_en

\* Project.single_version
SingleVersion(p) ==
    CASE p = "pip" -> db.pipSingle
      [] p = "sub" -> db.subSingle
      [] OTHER -> FALSE

\* Project.default_version
DefaultVersion(p) == IF p = "pip" THEN db.pipDefault ELSE W_latest

\* Project.translations: the projects whose main language project is p.
Translations(p) ==
    IF ~db.hasTranslation THEN {}
    ELSE CASE p = "pip" -> {"pip-es"}
           [] p = "sub" -> {"sub-es"}
           [] OTHER -> {}

\* Project.subprojects: the ProjectRelationship rows whose parent is p.
Subprojects(p) ==
    CASE p = "pip" -> {[alias |-> W_sub, child |-> "sub"]}
      [] p = "sub" -> {[alias |-> W_sub2, child |-> "sub2"]}
      [] OTHER -> {}

\* The slugs of the versions of p, by manager.
VersionSlugs(p, manager) ==
    IF manager = INTERNAL
    THEN (IF p = "pip" THEN {W_latest, W_42} ELSE {W_latest})
    ELSE (IF p \in {"pip", "sub"} THEN {W_42} ELSE {})

\* Project.versions(manager=manager)
Versions(p, manager) ==
    {[project |-> p, slug |-> s, type |-> manager] : s \in VersionSlugs(p, manager)}

\* The projects with a Feature row RESOLVE_PROJECT_FROM_HEADER.
HeaderFeatureProjects == {"pip"}

\* The Domain rows.
Domains ==
    {[domain |-> W_pip \o W_dot \o W_com, project |-> "pip"],
     [domain |-> W_pip \o W_dot \o PUBLIC_DOMAIN \o W_dot \o W_com, project |-> "pip"]}

\* queryset.first(): a row of the queryset, or None.
First(rows, none) == IF rows = {} THEN none ELSE CHOOSE r \in rows : TRUE

\* The data stores the model starts from.  Stores that differ only in a field
\* the code never reads are left out: a single-version project's translations
\* and a multiversion project's default_version.
DataStores ==
    {d \in [pipSingle : BOOLEAN, subSingle : BOOLEAN, hasTranslation : BOOLEAN,
            pipDefault : {W_latest, W_stable}] :
        /\ d.pipSingle => d.hasTranslation
        /\ ~d.pipSingle => d.pipDefault = W_latest}

(***************************************************************************)
(* Domain classification                                                   *)
(***************************************************************************)

custom_domain == "custom_domain"

public_domain == "public_domain"

external_domain == "external_domain"

http_header == "http_header"

\* UnresolvedDomain(source_domain, source, project, domain=None,
\*                  external_version_slug=None)
UnresolvedDomain(source_domain, source, project, domain, external_version_slug) ==
    [source_domain |-> source_domain, source |-> source, project |-> project,
     domain |-> domain, external_version_slug |-> external_version_slug]

NoUnresolvedDomain == UnresolvedDomain(None, "None", NoProject, NoDomain, None)

DomainOk(ud) == [kind |-> "ok", ud |-> ud, errdomain |-> None]

DomainErr(kind, domain) == [kind |-> kind, ud |-> NoUnresolvedDomain, errdomain |-> domain]

\* host.lower().split(":")[0]
get_domain_from_host(host) == Split1(Lower(host), <<":">>)[1]

\* Project.objects.get(slug=slug), or InvalidSubdomainError.  Returns the
\* project, or NoProject when Project.DoesNotExist was raised.
resolve_project_slug(slug) == First({p \in Projects : Slug(p) = slug}, NoProject)

\* The branch of unresolve_domain for a host under PUBLIC_DOMAIN.
unresolve_public_domain(domain, subdomain) ==
    LET project == resolve_project_slug(subdomain)
    IN  IF project = NoProject
        THEN DomainErr("InvalidSubdomainError", domain)
        ELSE DomainOk(UnresolvedDomain(domain, public_domain, project, NoDomain, None))

\* A variant of unresolve_external_domain that passes on an empty version
\* slug as None.
unresolve_external_domain_or_none(domain, subdomain) ==
    LET split == RSplit1(subdomain, W_dashes)
    IN  IF Len(split) # 2
        THEN DomainErr("InvalidExternalDomainError", domain)
        ELSE LET project == resolve_project_slug(split[1])
             IN  IF project = NoProject
                 THEN DomainErr("InvalidSubdomainError", domain)
                 ELSE DomainOk(UnresolvedDomain(domain, external_domain, project, NoDomain,
                                                IF split[2] = <<>> THEN None ELSE split[2]))

\* The branch of unresolve_domain for a host under RTD_EXTERNAL_VERSION_DOMAIN.
\* Unpacking rsplit's list into two names raises ValueError unless it has
\* two parts; InvalidSubdomainError is no ValueError and is not caught.
unresolve_external_domain(domain, subdomain) ==
    LET split == RSplit1(subdomain, W_dashes)
    IN  IF Len(split) # 2
        THEN DomainErr("InvalidExternalDomainError", domain)
        ELSE LET project == resolve_project_slug(split[1])
             IN  IF project = NoProject
                 THEN DomainErr("InvalidSubdomainError", domain)
                 ELSE DomainOk(UnresolvedDomain(domain, external_domain, project,
                                                NoDomain, split[2]))

\* The branch of unresolve_domain for any other host.
unresolve_custom_domain(domain) ==
    LET domain_object == First({d \in Domains : d.domain = domain}, NoDomain)
    IN  IF domain_object = NoDomain
        THEN DomainErr("InvalidCustomDomainError", domain)
        ELSE DomainOk(UnresolvedDomain(domain, custom_domain, domain_object.project,
                                       domain_object, None))

\* A variant of unresolve_domain that looks a host up among the custom
\* domains when it holds one of the suffixes but not as its root domain.
unresolve_domain_unguarded(domain) ==
    LET public == get_domain_from_host(PUBLIC_DOMAIN)
        external == get_domain_from_host(RTD_EXTERNAL_VERSION_DOMAIN)
        parts == Split1(domain, W_dot)
        subdomain == parts[1]
        root_domain == IF Len(parts) > 1 THEN parts[2] ELSE <<>>
    IN  IF public = root_domain
        THEN unresolve_public_domain(domain, subdomain)
        ELSE IF external = root_domain
        THEN unresolve_external_domain(domain, subdomain)
        ELSE unresolve_custom_domain(domain)

unresolve_domain(domain) ==
    LET public == get_domain_from_host(PUBLIC_DOMAIN)
        external == get_domain_from_host(RTD_EXTERNAL_VERSION_DOMAIN)
        parts == Split1(domain, W_dot)
        subdomain == parts[1]
        root_domain == IF Len(parts) > 1 THEN parts[2] ELSE <<>>
    IN  IF Contains(domain, public)
        THEN IF public = root_domain
             THEN unresolve_public_domain(domain, subdomain)
             ELSE DomainErr("SuspiciousHostnameError", domain)
        ELSE IF Contains(domain, external)
        THEN IF external = root_domain
             THEN unresolve_external_domain(domain, subdomain)
             ELSE DomainErr("SuspiciousHostnameError", domain)
        ELSE unresolve_custom_domain(domain)

\* A variant of unresolve_domain_from_request that classifies the host when
\* the header names no project with the feature.
unresolve_domain_from_request_lenient(request) ==
    LET host == get_domain_from_host(request.host)
        header_project_slug ==
            Lower(IF request.header = None THEN <<>> ELSE request.header)
        project ==
            First({p \in Projects : /\ Slug(p) = header_project_slug
                                    /\ p \in HeaderFeatureProjects},
                  NoProject)
    IN  IF header_project_slug # <<>> /\ project # NoProject
        THEN DomainOk(UnresolvedDomain(host, http_header, project, NoDomain, None))
                 @@ [classified |-> None]
        ELSE unresolve_domain(host) @@ [classified |-> host]

\* A request: the host of request.get_host() and the X-RTD-Slug header
\* (None when the header is absent).  The result also records the host handed
\* to unresolve_domain (None when unresolve_domain was not called).
unresolve_domain_from_request(request) ==
    LET host == get_domain_from_host(request.host)
        header_project_slug ==
            Lower(IF request.header = None THEN <<>> ELSE request.header)
    IN  IF header_project_slug # <<>>
        THEN LET project ==
                     First({p \in Projects : /\ Slug(p) = header_project_slug
                                             /\ p \in HeaderFeatureProjects},
                           NoProject)
             IN  IF project # NoProject
                 THEN DomainOk(UnresolvedDomain(host, http_header, project,
                                                NoDomain, None))
                          @@ [classified |-> None]
                 ELSE DomainErr("InvalidXRTDSlugHeaderError", None)
                          @@ [classified |-> None]
        ELSE unresolve_domain(host) @@ [classified |-> host]

(***************************************************************************)
(* The path patterns                                                       *)
(***************************************************************************)

\* pattern_opts["lang_slug"]: the language codes.
LANGUAGES == {W_en, W_es}

\* The characters of a slug: alphanumerics, "-", "_" and ".".
IsSlugChar(c) == IsAlnum(c) \/ c = "-" \/ c = "_" \/ c = "."

\* The characters of a file name: those of a slug, and "/".
IsFilenameChar(c) == IsSlugChar(c) \/ c = "/"

\* pattern_opts["version_slug"] and pattern_opts["project_slug"]
IsSlug(s) == Len(s) > 0 /\ \A i \in 1..Len(s) : IsSlugChar(s[i])

\* pattern_opts["filename_slug"]
IsFilename(s) == \A i \in 1..Len(s) : IsFilenameChar(s[i])

NoMatch == [matched |-> FALSE, language |-> None, version |-> None,
            project |-> None, file |-> None]

\* The groups version and file of multiversion_pattern, for a path that
\* goes on after the language: afterVersion is that rest, cut at its first /.
multiversion_version(language, afterVersion) ==
    IF ~IsSlug(afterVersion[1]) THEN NoMatch
    ELSE IF Len(afterVersion) = 1
    THEN [NoMatch EXCEPT !.matched = TRUE, !.language = language,
                         !.version = afterVersion[1]]
    ELSE IF ~IsFilename(afterVersion[2]) THEN NoMatch
    ELSE [NoMatch EXCEPT !.matched = TRUE, !.language = language,
                         !.version = afterVersion[1], !.file = afterVersion[2]]

\* The group language of multiversion_pattern: afterLang is the path after
\* its leading /, cut at its first /.
multiversion_language(afterLang) ==
    IF afterLang[1] \notin LANGUAGES THEN NoMatch
    ELSE IF Len(afterLang) = 1 \/ afterLang[2] = <<>>
    THEN [NoMatch EXCEPT !.matched = TRUE, !.language = afterLang[1]]
    ELSE multiversion_version(afterLang[1], Split1(afterLang[2], W_slash))

\* multiversion_pattern.match(path):
\*   ^/(?P<language>..)(/((?P<version>..)(/(?P<file>..))?)?)?$
\* A group that took no part in the match is None.
multiversion_pattern(path) ==
    IF ~StartsWith(path, W_slash) THEN NoMatch
    ELSE multiversion_language(Split1(SubSeq(path, 2, Len(path)), W_slash))

\* The groups project and file of subproject_pattern: afterAlias is the path
\* after /projects/, cut at its first /.
subproject_project(afterAlias) ==
    IF ~IsSlug(afterAlias[1]) THEN NoMatch
    ELSE IF Len(afterAlias) = 1
    THEN [NoMatch EXCEPT !.matched = TRUE, !.project = afterAlias[1]]
    ELSE IF ~IsFilename(afterAlias[2]) THEN NoMatch
    ELSE [NoMatch EXCEPT !.matched = TRUE, !.project = afterAlias[1],
                         !.file = afterAlias[2]]

\* subproject_pattern.match(path):
\*   ^/projects/(?P<project>..+)(/(?P<file>..))?$
subproject_pattern(path) ==
    IF ~StartsWith(path, W_slash \o W_projects \o W_slash) THEN NoMatch
    ELSE subproject_project(Split1(SubSeq(path, Len(W_projects) + 3, Len(path)), W_slash))

(***************************************************************************)
(* Path resolution                                                         *)
(***************************************************************************)

\* What a matcher hands back: kind "None" (no match), "ok" (the tuple
\* project, version, file) or the name of the exception raised, with the
\* exception's attributes.  tried lists the matchers entered, in order;
\* lookups is the set of queries made.
Response(kind, project, version, file, slug, tried, lookups) ==
    [kind |-> kind, project |-> project, version |-> version, file |-> file,
     slug |-> slug, tried |-> tried, lookups |-> lookups]

Tried(strategy, project) == <<[strategy |-> strategy, project |-> project]>>

Lookup(query, project, arg) == [query |-> query, project |-> project, arg |-> arg]

\* The response r, reached after the matchers tried and the queries lookups.
After(tried, lookups, r) ==
    [r EXCEPT !.tried = tried \o @, !.lookups = lookups \cup @]

NoResponse == Response("None", NoProject, NoVersion, None, None, <<>>, {})

\* if response: a tuple is true, None is false.
IsResponse(r) == r.kind # "None"

\* A variant of normalize_filename that does not add the leading /.
normalize_filename_unpadded(filename) == IF Truthy(filename) THEN filename ELSE W_slash

normalize_filename(filename) ==
    LET f == IF Truthy(filename) THEN filename ELSE W_slash
    IN  IF ~StartsWith(f, W_slash) THEN W_slash \o f ELSE f

\* A variant of match_multiversion_version that looks the version up among
\* the versions of the parent project, not of the project of the language.
match_multiversion_version_of_parent(parent_project, external_version_slug, language, version_slug, file, project) ==
    LET tried == Tried("multiversion", parent_project)
        translationLookup ==
            IF Language(parent_project) = language
            THEN {}
            ELSE {Lookup("translations", parent_project, language)}
        manager == IF Truthy(external_version_slug) THEN EXTERNAL ELSE INTERNAL
        version ==
            First({v \in Versions(parent_project, manager) : v.slug = version_slug},
                  NoVersion)
        versionLookup == {Lookup(manager, parent_project, version_slug)}
    IN  IF project = NoProject
        THEN Response("TranslationNotFoundError", parent_project, NoVersion, file,
                      language, tried, translationLookup)
        ELSE IF Truthy(external_version_slug) /\ external_version_slug # version_slug
        THEN Response("InvalidExternalVersionError", project, NoVersion, None,
                      version_slug, tried, translationLookup)
        ELSE IF version = NoVersion
        THEN Response("VersionNotFoundError", project, NoVersion, file, version_slug,
                      tried, translationLookup \cup versionLookup)
        ELSE Response("ok", project, version, file, version_slug, tried,
                      translationLookup \cup versionLookup)

\* The rest of match_multiversion_project, once the project of the language
\* is known (NoProject: no translation has that language).
match_multiversion_version(parent_project, external_version_slug, language, version_slug, file, project) ==
    LET tried == Tried("multiversion", parent_project)
        translationLookup ==
            IF Language(parent_project) = language
            THEN {}
            ELSE {Lookup("translations", parent_project, language)}
        manager == IF Truthy(external_version_slug) THEN EXTERNAL ELSE INTERNAL
        version ==
            First({v \in Versions(project, manager) : v.slug = version_slug}, NoVersion)
        versionLookup == {Lookup(manager, project, version_slug)}
    IN  IF project = NoProject
        THEN Response("TranslationNotFoundError", parent_project, NoVersion, file,
                      language, tried, translationLookup)
        ELSE IF Truthy(external_version_slug) /\ external_version_slug # version_slug
        THEN Response("InvalidExternalVersionError", project, NoVersion, None,
                      version_slug, tried, translationLookup)
        ELSE IF version = NoVersion
        THEN Response("VersionNotFoundError", project, NoVersion, file, version_slug,
                      tried, translationLookup \cup versionLookup)
        ELSE Response("ok", project, version, file, version_slug, tried,
                      translationLookup \cup versionLookup)

\* The rest of match_multiversion_project, once the pattern was tried.
match_multiversion_language(parent_project, external_version_slug, match) ==
    IF ~match.matched
    THEN Response("None", NoProject, NoVersion, None, None,
                  Tried("multiversion", parent_project), {})
    ELSE match_multiversion_version(
             parent_project, external_version_slug, match.language, match.version,
             normalize_filename(match.file),
             IF Language(parent_project) = match.language
             THEN parent_project
             ELSE First({t \in Translations(parent_project) :
                            Language(t) = match.language},
                        NoProject))

match_multiversion_project(parent_project, path, external_version_slug) ==
    match_multiversion_language(parent_project, external_version_slug,
                                multiversion_pattern(path))

\* A variant of match_single_version_project that serves the version
\* "latest" whatever the project's default_version is.
match_single_version_latest(parent_project, path, external_version_slug) ==
    LET file == normalize_filename(path)
        tried == Tried("single_version", parent_project)
        version_slug ==
            IF Truthy(external_version_slug) THEN external_version_slug ELSE W_latest
        manager == IF Truthy(external_version_slug) THEN EXTERNAL ELSE INTERNAL
        version ==
            First({v \in Versions(parent_project, manager) : v.slug = version_slug},
                  NoVersion)
        lookups == {Lookup(manager, parent_project, version_slug)}
    IN  IF version = NoVersion
        THEN Response("VersionNotFoundError", parent_project, NoVersion, file,
                      version_slug, tried, lookups)
        ELSE Response("ok", parent_project, version, file, version_slug, tried, lookups)

match_single_version_project(parent_project, path, external_version_slug) ==
    LET file == normalize_filename(path)
        tried == Tried("single_version", parent_project)
        version_slug ==
            IF Truthy(external_version_slug)
            THEN external_version_slug
            ELSE DefaultVersion(parent_project)
        manager == IF Truthy(external_version_slug) THEN EXTERNAL ELSE INTERNAL
        version ==
            First({v \in Versions(parent_project, manager) : v.slug = version_slug},
                  NoVersion)
        lookups == {Lookup(manager, parent_project, version_slug)}
    IN  IF version = NoVersion
        THEN Response("VersionNotFoundError", parent_project, NoVersion, file,
                      version_slug, tried, lookups)
        ELSE Response("ok", parent_project, version, file, version_slug, tried, lookups)

RECURSIVE unresolve_path_with_parent_project(_, _, _, _)

\* A variant of match_subproject that resolves the rest of the path with
\* check_subprojects left at its default, True.
match_subproject_recursing(parent_project, path, external_version_slug) ==
    LET match == subproject_pattern(path)
        tried == Tried("subproject", parent_project)
        subproject_alias == match.project
        file == normalize_filename(match.file)
        project_relationship ==
            First({r \in Subprojects(parent_project) : r.alias = subproject_alias},
                  [alias |-> None, child |-> NoProject])
        lookups == {Lookup("subprojects", parent_project, subproject_alias)}
    IN  IF ~match.matched
        THEN Response("None", NoProject, NoVersion, None, None, tried, {})
        ELSE IF project_relationship.child # NoProject
        THEN After(tried, lookups,
                   unresolve_path_with_parent_project(
                       project_relationship.child, file, TRUE, external_version_slug))
        ELSE Response("None", NoProject, NoVersion, None, None, tried, lookups)

match_subproject(parent_project, path, external_version_slug) ==
    LET match == subproject_pattern(path)
        tried == Tried("subproject", parent_project)
        subproject_alias == match.project
        file == normalize_filename(match.file)
        project_relationship ==
            First({r \in Subprojects(parent_project) : r.alias = subproject_alias},
                  [alias |-> None, child |-> NoProject])
        lookups == {Lookup("subprojects", parent_project, subproject_alias)}
    IN  IF ~match.matched
        THEN Response("None", NoProject, NoVersion, None, None, tried, {})
        ELSE IF project_relationship.child # NoProject
        THEN After(tried, lookups,
                   unresolve_path_with_parent_project(
                       project_relationship.child, file, FALSE, external_version_slug))
        ELSE Response("None", NoProject, NoVersion, None, None, tried, lookups)

\* The end of unresolve_path_with_parent_project: the single-version
\* matcher's response, or InvalidPathForVersionedProjectError.
unresolve_single_version(parent_project, path, tried, lookups, single) ==
    IF IsResponse(single)
    THEN After(tried, lookups, single)
    ELSE Response("InvalidPathForVersionedProjectError", parent_project, NoVersion,
                  normalize_filename(path), None, tried \o single.tried,
                  lookups \cup single.lookups)

\* unresolve_path_with_parent_project after the subproject matcher.
unresolve_subproject(parent_project, path, external_version_slug, tried, lookups, subproject) ==
    IF IsResponse(subproject)
    THEN After(tried, lookups, subproject)
    ELSE unresolve_single_version(
             parent_project, path, tried \o subproject.tried,
             lookups \cup subproject.lookups,
             IF SingleVersion(parent_project)
             THEN match_single_version_project(parent_project, path,
                                               external_version_slug)
             ELSE NoResponse)

\* A variant of unresolve_multiversion that goes on to the next matcher when
\* the multiversion matcher raised, as it does when it returned None.
unresolve_multiversion_falling_through(parent_project, path, check_subprojects, external_version_slug, multiversion) ==
    IF multiversion.kind = "ok"
    THEN multiversion
    ELSE unresolve_subproject(
             parent_project, path, external_version_slug, multiversion.tried,
             multiversion.lookups,
             IF check_subprojects
             THEN match_subproject(parent_project, path, external_version_slug)
             ELSE NoResponse)

\* unresolve_path_with_parent_project after the multiversion matcher: a
\* response, or an exception raised by the matcher, ends the resolution.
unresolve_multiversion(parent_project, path, check_subprojects, external_version_slug, multiversion) ==
    IF IsResponse(multiversion)
    THEN multiversion
    ELSE unresolve_subproject(
             parent_project, path, external_version_slug, multiversion.tried,
             multiversion.lookups,
             IF check_subprojects
             THEN match_subproject(parent_project, path, external_version_slug)
             ELSE NoResponse)

unresolve_path_with_parent_project(parent_project, path, check_subprojects, external_version_slug) ==
    unresolve_multiversion(
        parent_project, path, check_subprojects, external_version_slug,
        IF ~SingleVersion(parent_project)
        THEN match_multiversion_project(parent_project, path, external_version_slug)
        ELSE NoResponse)

(***************************************************************************)
(* The facade                                                              *)
(***************************************************************************)

W_scheme == <<"h", "t", "t", "p", "s">>

\* The first position of s at which one of the characters cs stands,
\* Len(s) + 1 when none does.
FindAny(s, cs) ==
    IF \E i \in 1..Len(s) : s[i] \in cs
    THEN CHOOSE i \in 1..Len(s) : s[i] \in cs /\ \A j \in 1..(i - 1) : s[j] \notin cs
    ELSE Len(s) + 1

ParseResult(scheme, netloc, path, query, fragment) ==
    [scheme |-> scheme, netloc |-> netloc, path |-> path, query |-> query,
     fragment |-> fragment]

\* urlparse, the fragment cut off: the query is what follows the first ?.
urlsplit_query(scheme, netloc, byFragment, byQuery) ==
    ParseResult(scheme, netloc, byQuery[1],
                IF Len(byQuery) > 1 THEN byQuery[2] ELSE <<>>,
                IF Len(byFragment) > 1 THEN byFragment[2] ELSE <<>>)

\* urlparse, the netloc cut off: the fragment is what follows the first #.
urlsplit_fragment(scheme, netloc, byFragment) ==
    urlsplit_query(scheme, netloc, byFragment, Split1(byFragment[1], <<"?">>))

\* urlparse, the scheme cut off: after //, the netloc runs up to the first
\* of /, ? and #.
urlsplit_netloc(scheme, rest, delim) ==
    IF StartsWith(rest, <<"/", "/">>)
    THEN urlsplit_fragment(scheme, SubSeq(rest, 3, delim - 1),
                           Split1(SubSeq(rest, delim, Len(rest)), <<"#">>))
    ELSE urlsplit_fragment(scheme, <<>>, Split1(rest, <<"#">>))

\* urlparse, the first : found at colon: what stands before it is the scheme
\* when it is made of the characters of a scheme.
urlsplit_scheme(url, colon) ==
    IF /\ colon > 1
       /\ colon <= Len(url)
       /\ \A i \in 1..(colon - 1) :
              IsAlnum(url[i]) \/ url[i] = "+" \/ url[i] = "-" \/ url[i] = "."
    THEN urlsplit_netloc(Lower(SubSeq(url, 1, colon - 1)),
                         SubSeq(url, colon + 1, Len(url)),
                         2 + FindAny(SubSeq(url, colon + 3, Len(url)), {"/", "?", "#"}))
    ELSE urlsplit_netloc(<<>>, url, 2 + FindAny(SubSeq(url, 3, Len(url)), {"/", "?", "#"}))

\* urllib.parse.urlparse(url): scheme://netloc/path?query#fragment
urlparse(url) == urlsplit_scheme(url, FindAny(url, {":"}))

\* UnresolvedURL(parent_project, project, version, filename, parsed_url,
\*               domain=None, external=False)
UnresolvedURL(parent_project, project, version, filename, parsed_url, domain, external) ==
    [parent_project |-> parent_project, project |-> project, version |-> version,
     filename |-> filename, parsed_url |-> parsed_url, domain |-> domain,
     external |-> external]

NoUnresolvedURL ==
    UnresolvedURL(NoProject, NoProject, NoVersion, None,
                  ParseResult(<<>>, <<>>, <<>>, <<>>, <<>>), NoDomain, FALSE)

\* What a call of the facade leaves: kind is "ok" or the name of the
\* exception raised; domain is the outcome of the domain classification,
\* path the response of the path resolution, url the UnresolvedURL returned.
Outcome(kind, domain, path, url) ==
    [kind |-> kind, domain |-> domain, path |-> path, url |-> url]

NoClassification == DomainErr("None", None) @@ [classified |-> None]

\* The end of _unresolve: the UnresolvedURL of the path resolver's response.
unresolve_response(classification, parsed_url, append_indexhtml, response) ==
    IF response.kind # "ok"
    THEN Outcome(response.kind, classification, response, NoUnresolvedURL)
    ELSE Outcome("ok", classification, response,
                 UnresolvedURL(classification.ud.project, response.project,
                               response.version,
                               IF append_indexhtml /\ EndsWith(response.file, W_slash)
                               THEN response.file \o W_index_html
                               ELSE response.file,
                               parsed_url, classification.ud.domain,
                               classification.ud.source = external_domain))

\* _unresolve(unresolved_domain, parsed_url, append_indexhtml), the
\* UnresolvedDomain being that of the classification.
unresolve(classification, parsed_url, append_indexhtml) ==
    unresolve_response(
        classification, parsed_url, append_indexhtml,
        unresolve_path_with_parent_project(
            classification.ud.project, parsed_url.path, TRUE,
            classification.ud.external_version_slug))

\* unresolve_url after unresolve_domain: an exception it raised ends the call.
unresolve_classified(classification, parsed_url, append_indexhtml) ==
    IF classification.kind # "ok"
    THEN Outcome(classification.kind, classification, NoResponse, NoUnresolvedURL)
    ELSE unresolve(classification, parsed_url, append_indexhtml)

\* unresolve_url after get_domain_from_host.
unresolve_host(domain, parsed_url, append_indexhtml) ==
    unresolve_classified(unresolve_domain(domain) @@ [classified |-> domain],
                         parsed_url, append_indexhtml)

\* unresolve_url after urlparse.
unresolve_parsed_url(parsed_url, append_indexhtml) ==
    unresolve_host(get_domain_from_host(parsed_url.netloc), parsed_url,
                   append_indexhtml)

unresolve_url(url, append_indexhtml) ==
    unresolve_parsed_url(urlparse(url), append_indexhtml)

unresolve_path(classification, path, append_indexhtml) ==
    unresolve(classification, ParseResult(<<>>, <<>>, path, <<>>, <<>>),
              append_indexhtml)

(***************************************************************************)
(* Inputs                                                                  *)
(***************************************************************************)

\* The most /projects/{alias} prefixes of a path.
MaxNest == 2

\* The most pieces of the first label of a host.
MaxLabelPieces == 3

RECURSIVE Concats(_, _)
\* The concatenations of at most n of the pieces.
Concats(pieces, n) ==
    IF n = 0 THEN {<<>>}
    ELSE {s \o p : s \in Concats(pieces, n - 1), p \in pieces \cup {<<>>}}

\* What follows the subproject prefixes: nothing, a language, a language and
\* a version, or a segment that is no language.
Tails ==
    {<<>>,
     W_slash \o W_en,
     W_slash \o W_es,
     W_slash \o W_en \o W_slash \o W_latest,
     W_slash \o W_en \o W_slash \o W_42,
     W_slash \o W_en \o W_slash \o W_en,
     W_slash \o W_es \o W_slash \o W_42,
     W_slash \o W_es \o W_slash \o W_latest,
     W_slash \o W_latest}

Paths ==
    {prefix \o tail \o file :
        prefix \in Concats({W_slash \o W_projects \o W_slash \o a : a \in {W_sub, W_sub2}},
                           MaxNest),
        tail \in Tails,
        file \in {<<>>, W_slash, W_slash \o W_f}}
    \cup {W_f, W_f \o W_slash}

Labels == Concats({W_pip, W_dashes, W_42}, MaxLabelPieces)

Roots ==
    {PUBLIC_DOMAIN, RTD_EXTERNAL_VERSION_DOMAIN, W_com,
     PUBLIC_DOMAIN \o W_dot \o W_com, <<"x">> \o RTD_EXTERNAL_VERSION_DOMAIN}

Hosts == Labels \cup {label \o W_dot \o root : label \in Labels, root \in Roots}

Port == <<":", "8", "0">>

\* The hosts of the requests.
Netlocs ==
    {Upper(W_pip \o W_dot \o PUBLIC_DOMAIN) \o Port,
     W_pip \o W_dashes \o W_42 \o W_dot \o RTD_EXTERNAL_VERSION_DOMAIN,
     W_pip \o W_dashes \o W_dot \o RTD_EXTERNAL_VERSION_DOMAIN,
     W_pip \o W_dot \o W_com,
     W_pip \o W_dot \o PUBLIC_DOMAIN \o W_dot \o W_com}

\* The values of the X-RTD-Slug header (None: no such header).
Headers == {None, <<>>, W_pip, Upper(W_pip), W_sub, W_nop}

Requests == [host : Netlocs, header : Headers]

\* The request whose classification is handed to unresolve_path.
PathRequests == {[host |-> W_pip \o W_dot \o W_com, header |-> None]}

\* The URLs: every path on the hosts that are classified, and one path on a
\* host that is refused.
Urls ==
    {W_scheme \o <<":", "/", "/">> \o netloc \o path :
        netloc \in {Upper(W_pip \o W_dot \o PUBLIC_DOMAIN) \o Port,
                    W_pip \o W_dashes \o W_42 \o W_dot \o RTD_EXTERNAL_VERSION_DOMAIN,
                    W_pip \o W_dashes \o W_dot \o RTD_EXTERNAL_VERSION_DOMAIN},
        path \in Paths}
    \cup {W_scheme \o <<":", "/", "/">> \o W_pip \o W_dot \o PUBLIC_DOMAIN
              \o W_dot \o W_com \o W_slash \o W_en \o <<"?", "q", "#", "a">>}

(***************************************************************************)
(* The state machine: one action per entry point                           *)
(***************************************************************************)

NoRequest == [host |-> None, header |-> None]

Call(op, host, request, path, url, append_indexhtml) ==
    [op |-> op, host |-> host, request |-> request, path |-> path, url |-> url,
     append_indexhtml |-> append_indexhtml]

Init ==
    /\ db \in DataStores
    /\ call = Call("None", None, NoRequest, None, None, TRUE)
    /\ result = Outcome("None", NoClassification, NoResponse, NoUnresolvedURL)

\* No call is under way.
Idle == call.op = "None"

UnresolveDomain ==
    /\ Idle
    /\ \E host \in Hosts :
           LET classification == unresolve_domain(host) @@ [classified |-> host]
           IN  /\ call' = Call("unresolve_domain", host, NoRequest, None, None, TRUE)
               /\ result' = Outcome(classification.kind, classification, NoResponse,
                                    NoUnresolvedURL)
    /\ UNCHANGED db

UnresolveDomainFromRequest ==
    /\ Idle
    /\ \E request \in Requests :
           LET classification == unresolve_domain_from_request(request)
           IN  /\ call' = Call("unresolve_domain_from_request", None, request, None,
                               None, TRUE)
               /\ result' = Outcome(classification.kind, classification, NoResponse,
                                    NoUnresolvedURL)
    /\ UNCHANGED db

UnresolvePath ==
    /\ Idle
    /\ \E request \in PathRequests, path \in Paths, append_indexhtml \in BOOLEAN :
           LET classification == unresolve_domain_from_request(request)
           IN  /\ classification.kind = "ok"
               /\ call' = Call("unresolve_path", None, request, path, None,
                               append_indexhtml)
               /\ result' = unresolve_path(classification, path, append_indexhtml)
    /\ UNCHANGED db

UnresolveUrl ==
    /\ Idle
    /\ \E url \in Urls :
           /\ call' = Call("unresolve_url", None, NoRequest, None, url, TRUE)
           /\ result' = unresolve_url(url, TRUE)
    /\ UNCHANGED db

\* The call returns (or raises) and its caller is free to call again.
Return ==
    /\ ~Idle
    /\ call' = Call("None", None, NoRequest, None, None, TRUE)
    /\ result' = Outcome("None", NoClassification, NoResponse, NoUnresolvedURL)
    /\ UNCHANGED db

Next ==
    \/ UnresolveDomain
    \/ UnresolveDomainFromRequest
    \/ UnresolvePath
    \/ UnresolveUrl
    \/ Return

Spec == Init /\ [][Next]_vars

(***************************************************************************)
(* What a state says about the call that led to it                         *)
(***************************************************************************)

\* The call resolved a path: the domain was classified and the path resolver
\* was entered.
PathResolved ==
    /\ call.op \in {"unresolve_path", "unresolve_url"}
    /\ result.domain.kind = "ok"

\* The path handed to the path resolver.
CallPath == IF call.op = "unresolve_path" THEN call.path ELSE urlparse(call.url).path

\* The project of the classified domain and its external version slug.
Parent == result.domain.ud.project

Evs == result.domain.ud.external_version_slug

\* The strategies entered, in order.
Strategies == [i \in 1..Len(result.path.tried) |-> result.path.tried[i].strategy]

(***************************************************************************)
(* C1                                                                      *)
(***************************************************************************)

MultiversionCase ==
    /\ PathResolved
    /\ ~SingleVersion(Parent)
    /\ multiversion_pattern(CallPath).matched

\* C1: against a parent project that is not single_version, a path of the
\* multiversion shape ends with the multiversion matcher's result or with
\* TranslationNotFoundError, InvalidExternalVersionError or
\* VersionNotFoundError; no other matcher is entered after it and
\* InvalidPathForVersionedProjectError is not raised.
C1_CommitOnStructuralMatch ==
    MultiversionCase =>
        /\ result.kind \in {"ok", "TranslationNotFoundError",
                            "InvalidExternalVersionError", "VersionNotFoundError"}
        /\ Strategies = <<"multiversion">>
        /\ result.path = match_multiversion_project(Parent, CallPath, Evs)
        /\ result.kind = "ok" =>
               /\ result.url.project = result.path.project
               /\ result.url.version = result.path.version

\* The multiversion shape matched and the version was not found.
C1_Witness ==
    /\ MultiversionCase
    /\ result.kind = "VersionNotFoundError"
    /\ Strategies = <<"multiversion">>

(***************************************************************************)
(* C2                                                                      *)
(***************************************************************************)

\* The host handed to unresolve_domain (None: it was not called).
Classified == result.domain.classified

\* The part of a host after its first dot.
RootOf(host) ==
    IF \E i \in 1..Len(host) : host[i] = "."
    THEN LET i == CHOOSE i \in 1..Len(host) :
                      host[i] = "." /\ \A j \in 1..(i - 1) : host[j] # "."
         IN  SubSeq(host, i + 1, Len(host))
    ELSE <<>>

\* The suffix a host is judged by: the public one when the host holds it,
\* else the external one.
SuffixOf(host) ==
    IF Contains(host, PUBLIC_DOMAIN) THEN PUBLIC_DOMAIN ELSE RTD_EXTERNAL_VERSION_DOMAIN

SuspiciousCase ==
    /\ Classified # None
    /\ Contains(Classified, SuffixOf(Classified))
    /\ RootOf(Classified) # SuffixOf(Classified)

\* C2: a host that holds the public suffix (or else the external suffix) as a
\* substring, but not as its root domain, is refused with
\* SuspiciousHostnameError and yields no UnresolvedDomain, whatever Domain
\* rows exist.
C2_SuspiciousHostRefused ==
    SuspiciousCase =>
        /\ result.kind = "SuspiciousHostnameError"
        /\ result.domain.ud = NoUnresolvedDomain
        /\ result.url = NoUnresolvedURL

\* A suspicious host for which a Domain row is registered was refused.
C2_Witness ==
    /\ SuspiciousCase
    /\ \E d \in Domains : d.domain = Classified
    /\ result.kind = "SuspiciousHostnameError"

(***************************************************************************)
(* C3                                                                      *)
(***************************************************************************)

\* The project a language segment selects: the parent, one of its
\* translations, or none.
ProjectOfLanguage(parent, language) ==
    IF Language(parent) = language THEN {parent}
    ELSE {t \in Translations(parent) : Language(t) = language}

\* The domain is an external one and the path names, for a project that
\* exists, a version other than the domain's.
MismatchCase ==
    /\ PathResolved
    /\ result.domain.ud.source = external_domain
    /\ ~SingleVersion(Parent)
    /\ LET match == multiversion_pattern(CallPath)
       IN  /\ match.matched
           /\ match.version # None
           /\ match.version # Evs
           /\ ProjectOfLanguage(Parent, match.language) # {}

\* C3: when the domain is an external one with version slug e and the path
\* names a version v other than e, the call fails with
\* InvalidExternalVersionError (it neither succeeds nor fails with
\* VersionNotFoundError), whichever versions exist.
C3_MismatchIsInvalidExternalVersion ==
    MismatchCase => result.kind = "InvalidExternalVersionError"

(***************************************************************************)
(* C4                                                                      *)
(***************************************************************************)

\* path is /projects/{a.alias}/projects/{b.alias}, alone or followed by /...
NestedPath(path, a, b) ==
    LET prefix == W_slash \o W_projects \o W_slash \o a.alias
                  \o W_slash \o W_projects \o W_slash \o b.alias
    IN  /\ StartsWith(path, prefix)
        /\ Len(path) > Len(prefix) => path[Len(prefix) + 1] = "/"

\* The rest of a path after /projects/{a.alias}.
AfterAlias(path, a) ==
    SubSeq(path, Len(W_slash \o W_projects \o W_slash \o a.alias) + 1, Len(path))

\* The subprojects a of the parent and b of a that the path names.
NestedPairs ==
    {ab \in Subprojects(Parent) \X UNION {Subprojects(a.child) : a \in Subprojects(Parent)} :
        /\ ab[2] \in Subprojects(ab[1].child)
        /\ NestedPath(CallPath, ab[1], ab[2])}

NestedCase == PathResolved /\ NestedPairs # {}

\* The subprojects of a subproject are left alone: no query for the
\* subprojects of a, and b serves nothing.
NotRecursedInto(a, b) ==
    /\ \A l \in result.path.lookups : ~(l.query = "subprojects" /\ l.project = a.child)
    /\ result.path.project # b.child
    /\ result.url.project # b.child
    /\ result.url.version.project # b.child

\* C4 as claimed: /projects/{a}/projects/{b}/... against a project with
\* subproject a, itself with subproject b, fails with
\* InvalidPathForVersionedProjectError, and b is not resolved.
C4_NestedSubprojectIsInvalidPath ==
    NestedCase =>
        \A ab \in NestedPairs :
            /\ result.kind = "InvalidPathForVersionedProjectError"
            /\ NotRecursedInto(ab[1], ab[2])

\* C4, amended: b is never resolved; the call fails with
\* InvalidPathForVersionedProjectError (of a, for the path /projects/{b}/...)
\* when a is not single_version, and when a is single_version the rest of
\* the path is a file of a: a's version is served, or VersionNotFoundError.
C4_NestedSubprojectNeverResolved ==
    NestedCase =>
        \A ab \in NestedPairs :
            /\ NotRecursedInto(ab[1], ab[2])
            /\ result.path.project = ab[1].child
            /\ result.path.file = AfterAlias(CallPath, ab[1])
            /\ IF SingleVersion(ab[1].child)
               THEN /\ result.kind \in {"ok", "VersionNotFoundError"}
                    /\ result.kind = "ok" => result.url.project = ab[1].child
               ELSE result.kind = "InvalidPathForVersionedProjectError"

\* A nested path against a subproject that is not single_version was refused.
C4_Witness ==
    /\ NestedCase
    /\ \E ab \in NestedPairs : ~SingleVersion(ab[1].child)
    /\ result.kind = "InvalidPathForVersionedProjectError"
    /\ Strategies = <<"multiversion", "subproject", "multiversion">>

(***************************************************************************)
(* C5                                                                      *)
(***************************************************************************)

\* The whole path as a file name: / for the empty path, and with a leading /.
WholePath(path) ==
    IF path = <<>> THEN W_slash
    ELSE IF path[1] = "/" THEN path
    ELSE W_slash \o path

\* The file name a caller gets for a file: index.html is added to a directory.
Served(file) ==
    IF call.append_indexhtml /\ file[Len(file)] = "/" THEN file \o W_index_html ELSE file

\* The path names a subproject of the parent: /projects/{alias}, alone or
\* followed by /...
SelectsSubproject ==
    \E r \in Subprojects(Parent) :
        LET prefix == W_slash \o W_projects \o W_slash \o r.alias
        IN  /\ StartsWith(CallPath, prefix)
            /\ Len(CallPath) > Len(prefix) => CallPath[Len(prefix) + 1] = "/"

SingleVersionCase ==
    /\ PathResolved
    /\ SingleVersion(Parent)
    /\ result.domain.ud.source # external_domain

\* The default version of the parent is served with the whole path as the
\* file name, or, when that version does not exist, VersionNotFoundError is
\* raised.
DefaultVersionServed ==
    IF DefaultVersion(Parent) \in VersionSlugs(Parent, INTERNAL)
    THEN /\ result.kind = "ok"
         /\ result.url.parent_project = Parent
         /\ result.url.project = Parent
         /\ result.url.version =
                [project |-> Parent, slug |-> DefaultVersion(Parent), type |-> INTERNAL]
         /\ result.url.filename = Served(WholePath(CallPath))
    ELSE result.kind = "VersionNotFoundError"

\* C5 as claimed: for a single-version parent reached without an external
\* version slug, any path resolves to the project's default version, the
\* whole path being the file name.
C5_AnyPathServesDefaultVersion == SingleVersionCase => DefaultVersionServed

\* C5, amended: so does any path that does not name a subproject of the
\* parent (/projects/{alias}, alone or followed by /...); the subproject
\* matcher comes first.
C5_PathOutsideSubprojectsServesDefaultVersion ==
    (SingleVersionCase /\ ~SelectsSubproject) => DefaultVersionServed

\* The path / of a single-version project was served as /index.html.
C5_Witness ==
    /\ SingleVersionCase
    /\ CallPath = W_slash
    /\ call.append_indexhtml
    /\ result.kind = "ok"
    /\ result.url.filename = W_slash \o W_index_html

(***************************************************************************)
(* C6                                                                      *)
(***************************************************************************)

\* The call classified the domain of a request.
RequestCase == call.request # NoRequest

HeaderPresent == call.request.header # None /\ call.request.header # <<>>

\* A host in lower case and without its port.
NormalizedHost(host) ==
    LET colons == {i \in 1..Len(host) : host[i] = ":"}
        end == IF colons = {} THEN Len(host)
               ELSE (CHOOSE i \in colons : \A j \in colons : i <= j) - 1
    IN  [i \in 1..end |-> LowerChar(host[i])]

\* C6: with a non-empty X-RTD-Slug header the outcome is an UnresolvedDomain
\* of source http_header, for the project of that slug (in lower case) with
\* the feature, or InvalidXRTDSlugHeaderError, and the host is not
\* classified; the normalized host is classified exactly when the header is
\* absent or empty.
C6_HeaderNeverFallsBackToHost ==
    RequestCase =>
        IF HeaderPresent
        THEN /\ Classified = None
             /\ \/ /\ result.domain.kind = "ok"
                   /\ result.domain.ud.source = http_header
                   /\ result.domain.ud.project \in HeaderFeatureProjects
                   /\ Slug(result.domain.ud.project) = Lower(call.request.header)
                \/ /\ result.domain.kind = "InvalidXRTDSlugHeaderError"
                   /\ result.domain.ud = NoUnresolvedDomain
        ELSE /\ Classified = NormalizedHost(call.request.host)
             /\ result.domain.ud.source # http_header

\* The header named a project without the feature, on a host that would
\* have been classified, and the call failed.
C6_Witness ==
    /\ call.op = "unresolve_domain_from_request"
    /\ call.request.header = W_sub
    /\ unresolve_domain(NormalizedHost(call.request.host)).kind = "ok"
    /\ result.kind = "InvalidXRTDSlugHeaderError"

(***************************************************************************)
(* C7                                                                      *)
(***************************************************************************)

\* The first label of a host.
LabelOf(host) ==
    SubSeq(host, 1, Len(host) - Len(RootOf(host)) - (IF RootOf(host) = <<>> THEN 0 ELSE 1))

\* The positions of a label at which -- stands.
DashPositions(label) ==
    {i \in 1..(Len(label) - 1) : label[i] = "-" /\ label[i + 1] = "-"}

LastDashes(label) ==
    CHOOSE i \in DashPositions(label) : \A j \in DashPositions(label) : j <= i

ExternalHostCase ==
    /\ Classified # None
    /\ RootOf(Classified) = RTD_EXTERNAL_VERSION_DOMAIN

\* C7: a host {label}.{external suffix} is classified by its label, cut at
\* the last --: source external_domain with the project of the slug before
\* it and the version slug after it; InvalidSubdomainError when no project
\* has that slug, InvalidExternalDomainError when the label has no --.
C7_ExternalDomainSplitsAtLastDashes ==
    ExternalHostCase =>
        LET label == LabelOf(Classified)
        IN  IF DashPositions(label) = {}
            THEN result.domain.kind = "InvalidExternalDomainError"
            ELSE LET slug == SubSeq(label, 1, LastDashes(label) - 1)
                     version == SubSeq(label, LastDashes(label) + 2, Len(label))
                 IN  IF \E p \in Projects : Slug(p) = slug
                     THEN /\ result.domain.kind = "ok"
                          /\ result.domain.ud.source = external_domain
                          /\ Slug(result.domain.ud.project) = slug
                          /\ result.domain.ud.external_version_slug = version
                          /\ result.domain.ud.source_domain = Classified
                     ELSE result.domain.kind = "InvalidSubdomainError"

\* An external host was classified with the version slug of its label.
C7_Witness ==
    /\ call.op = "unresolve_domain"
    /\ ExternalHostCase
    /\ result.kind = "ok"
    /\ result.domain.ud.source = external_domain
    /\ result.domain.ud.project = "pip"
    /\ result.domain.ud.external_version_slug = W_42

(***************************************************************************)
(* C8                                                                      *)
(***************************************************************************)

\* C8: in every UnresolvedDomain returned, domain is set exactly when the
\* source is custom_domain (and then the project is that Domain's), and
\* external_version_slug is set exactly when the source is external_domain.
C8_UnresolvedDomainInvariant ==
    (call.op \in {"unresolve_domain", "unresolve_domain_from_request"}
         /\ result.kind = "ok") =>
        LET ud == result.domain.ud
        IN  /\ ud.domain # NoDomain <=> ud.source = custom_domain
            /\ ud.source = custom_domain =>
                   /\ ud.domain \in Domains
                   /\ ud.project = ud.domain.project
            /\ ud.external_version_slug # None <=> ud.source = external_domain

\* An external host with an empty version slug was classified.
C8_Witness ==
    /\ call.op = "unresolve_domain"
    /\ result.kind = "ok"
    /\ result.domain.ud.source = external_domain
    /\ result.domain.ud.external_version_slug = <<>>

(***************************************************************************)
(* C9                                                                      *)
(***************************************************************************)

IndexAppendedCase ==
    /\ PathResolved
    /\ result.kind = "ok"
    /\ call.append_indexhtml

\* C9: with append_indexhtml at its default, the file name returned starts
\* with / and does not end with /; it is the file the matchers found (/ or
\* an end of the path), with index.html added once, by the facade, exactly
\* when that file ends with /.
C9_FilenameNormalized ==
    IndexAppendedCase =>
        LET file == result.path.file
            filename == result.url.filename
        IN  /\ filename[1] = "/"
            /\ filename[Len(filename)] # "/"
            /\ file = W_slash \/ EndsWith(W_slash \o CallPath, file)
            /\ filename = IF file[Len(file)] = "/" THEN file \o W_index_html ELSE file

\* A directory of a subproject was served as its index.html.
C9_Witness ==
    /\ IndexAppendedCase
    /\ \E i \in 1..Len(Strategies) : Strategies[i] = "subproject"
    /\ EndsWith(CallPath, W_slash)
    /\ result.url.filename = result.path.file \o W_index_html
    /\ result.url.project = "sub"

(***************************************************************************)
(* C10                                                                     *)
(***************************************************************************)

\* C10: when unresolve_url succeeds for an external host, the version
\* returned is an external version of the serving project and its slug is
\* the version slug of the host.
C10_ExternalHostServesExternalVersion ==
    (call.op = "unresolve_url" /\ result.kind = "ok" /\ result.url.external) =>
        /\ result.url.version \in Versions(result.url.project, EXTERNAL)
        /\ result.url.version.slug = Evs

(***************************************************************************)
(* C11                                                                     *)
(***************************************************************************)

\* The call returned an UnresolvedURL.
ReturnedCase == PathResolved /\ result.kind = "ok"

\* The children of the subprojects of a project.
Children(p) == {r.child : r \in Subprojects(p)}

\* The projects a parent project can serve: itself, its translations, the
\* children of its subprojects and their translations.
Servable(p) ==
    {p} \cup Translations(p) \cup Children(p)
        \cup UNION {Translations(c) : c \in Children(p)}

\* C11: in every UnresolvedURL returned, parent_project is the project of
\* the classified domain, version is a version of project, and project is
\* the parent project, a translation of it, the child of one of its
\* subprojects or a translation of such a child.
C11_ServingProjectBelongsToParent ==
    ReturnedCase =>
        /\ result.url.parent_project = Parent
        /\ result.url.version \in Versions(result.url.project, INTERNAL)
                                    \cup Versions(result.url.project, EXTERNAL)
        /\ result.url.project \in Servable(Parent)

\* A translation of a subproject served one of its own versions.
C11_Witness ==
    /\ ReturnedCase
    /\ result.url.project \in UNION {Translations(c) : c \in Children(Parent)}
    /\ result.url.project \notin {Parent} \cup Translations(Parent) \cup Children(Parent)
    /\ result.url.version.project = result.url.project

====
